---- MODULE Spec2Model ----
(***************************************************************************)
(* The Renderer wrapper of the Creatomate video-preview demo: commands    *)
(* posted into the embed iframe, each correlated by a uuid with a pending *)
(* promise, and the single window 'message' handler that settles those    *)
(* promises and dispatches the embed's events (src/unnamed/part_001).      *)
(***************************************************************************)
EXTENDS Integers, Sequences, FiniteSets, TLC

(***************************************************************************)
(* Bounds of the model.                                                    *)
(***************************************************************************)
\* number of commands (uuids) one instance issues in a run
MaxCommands == 2

(***************************************************************************)
(* JavaScript values.  An object is a function from the names of the       *)
(* fields it has to their values; an absent field is absent from DOMAIN.   *)
(***************************************************************************)
EmptyObject == [k \in {} |-> 0]

Has(o, k) == k \in DOMAIN o

\* { ...a, ...b }: the fields of both, b's value where both have the field
Merge(a, b) == [k \in DOMAIN a \cup DOMAIN b |-> IF k \in DOMAIN b THEN b[k] ELSE a[k]]

\* the value JSON cannot carry
Undefined == "undefined"

\* the fields of a command message that hold an object of JSON values
ObjectFields == {"modifications", "source"}

\* JSON.parse(JSON.stringify(o)): the fields whose value is undefined are
\* dropped, every other field is kept
JsonRoundTrip(o) ==
  [k \in {f \in DOMAIN o : f \in ObjectFields \/ o[f] # Undefined} |-> o[k]]

\* an error that does not carry the text it was made from
NewErrorGeneric(text) == [message |-> <<"Command failed">>]

\* new Error(text): an object whose message is the text.  A message is a
\* sequence of text parts, so that a template literal is a concatenation.
NewError(text) == [message |-> <<text>>]

\* whether a message contains the text
Contains(message, text) == \E i \in DOMAIN message : message[i] = text

(***************************************************************************)
(* The state of one Renderer instance and of what surrounds it.            *)
(***************************************************************************)
VARIABLES
  mode,             \* Renderer.mode
  ready,            \* Renderer.ready
  state,            \* Renderer.state, the mirror of the embed's last snapshot
  pendingPromises,  \* Renderer._pendingPromises: uuid -> the promise it settles
  listening,        \* whether _handleMessage is registered on the window
  attached,         \* whether the iframe is in the document (it then has a contentWindow)
  handlers,         \* the names of the event callbacks that are assigned
  appTemplateId,    \* the template the assigned onReady callback loads, if it loads one
  display,          \* the style.display of the iframe
  rendererRef,      \* App's rendererRef.current: a position in renderers, 0 for undefined
  renderers,        \* the instances App.setUpRenderer has constructed, in order
  modificationsRef, \* SettingsPanel's modificationsRef.current: selector -> value
  addSlideCalls,    \* the calls of addSlide that await their setSource: its id -> the slide's name
  issued,           \* how many uuids were generated
  promises,         \* the promises _sendCommand returned, in order of creation
  outbox,           \* the messages posted to the embed, in order
  last              \* the last operation, as an observer of the instance logs it

vars == <<mode, ready, state, pendingPromises, listening, attached, handlers,
          appTemplateId, display, rendererRef, renderers, modificationsRef,
          addSlideCalls, issued, promises, outbox, last>>

Modes == {"player", "interactive"}

\* the events _handleMessage knows
EventNames == {"onReady", "onLoad", "onLoadComplete", "onPlay", "onPause", "onTimeChange",
               "onToolChange", "onActiveElementsChange", "onStateChange"}

\* the promise _sendCommand creates for the command of a method, sent under id
NewPromise(method, id) ==
  [method |-> method, id |-> id, status |-> "pending", value |-> EmptyObject, reason |-> <<>>,
   resolves |-> 0, rejects |-> 0]

\* resolve(value) of a promise: the first settlement decides, every call is counted
Resolve(p, value) ==
  IF p.status = "pending"
    THEN [p EXCEPT !.status = "resolved", !.value = value, !.resolves = @ + 1]
    ELSE [p EXCEPT !.resolves = @ + 1]

\* reject(error) of a promise
Reject(p, error) ==
  IF p.status = "pending"
    THEN [p EXCEPT !.status = "rejected", !.reason = error.message, !.rejects = @ + 1]
    ELSE [p EXCEPT !.rejects = @ + 1]

(***************************************************************************)
(* Construction.                                                           *)
(***************************************************************************)
Init ==
  /\ mode = "player"
  /\ ready = FALSE
  /\ state = Undefined
  /\ pendingPromises = EmptyObject
  /\ listening = TRUE
  /\ attached = TRUE
  /\ handlers = {"onReady", "onLoad", "onLoadComplete", "onStateChange"}
  /\ appTemplateId = Undefined
  /\ display = "none"
  /\ rendererRef = 0
  /\ renderers = <<>>
  /\ modificationsRef = EmptyObject
  /\ addSlideCalls = EmptyObject
  /\ issued = 0
  /\ promises = <<>>
  /\ outbox = <<>>
  /\ last = [op |-> "new"]

(***************************************************************************)
(* Renderer._sendCommand.  The operators below take and return the part of *)
(* the instance a handler reads and writes, as a record c.                 *)
(***************************************************************************)
Context ==
  [ready |-> ready, state |-> state, pendingPromises |-> pendingPromises,
   issued |-> issued, promises |-> promises, outbox |-> outbox,
   display |-> display, callbacks |-> <<>>, threw |-> FALSE]

\* uuid(): an identifier no earlier call returned; n identifiers were generated before
uuid(n) == n + 1

\* this._iframe.contentWindow?.postMessage(m, '*'): an iframe that is not in
\* the document has no contentWindow, and nothing is posted
postMessage(box, m) == IF attached THEN Append(box, m) ELSE box

\* _sendCommand without the check of ready
sendCommandUnguarded(c, method, message, payload) ==
  LET id == uuid(c.issued)
      n  == Len(c.promises) + 1
  IN [c EXCEPT
        !.issued = id,
        !.outbox = postMessage(@, Merge(Merge([id |-> id], JsonRoundTrip(message)), payload)),
        !.promises = Append(@, NewPromise(method, id)),
        !.pendingPromises = Merge(@, id :> n)]

\* _sendCommand: throws, before anything else, when the instance is not ready;
\* otherwise generates the identifier, posts the message and registers the
\* promise under the identifier
\* a _sendCommand that refuses a disposed instance as it refuses one that is
\* not ready
sendCommandRefusesDisposed(c, method, message, payload) ==
  IF ~c.ready \/ ~attached
    THEN [c EXCEPT !.threw = TRUE]
    ELSE LET id == uuid(c.issued)
             n  == Len(c.promises) + 1
         IN [c EXCEPT
               !.issued = id,
               !.outbox = postMessage(@, Merge(Merge([id |-> id], JsonRoundTrip(message)), payload)),
               !.promises = Append(@, NewPromise(method, id)),
               !.pendingPromises = Merge(@, id :> n)]

sendCommand(c, method, message, payload) ==
  IF ~c.ready
    THEN [c EXCEPT !.threw = TRUE]
    ELSE LET id == uuid(c.issued)
             n  == Len(c.promises) + 1
         IN [c EXCEPT
               !.issued = id,
               !.outbox = postMessage(@, Merge(Merge([id |-> id], JsonRoundTrip(message)), payload)),
               !.promises = Append(@, NewPromise(method, id)),
               !.pendingPromises = Merge(@, id :> n)]

(***************************************************************************)
(* The public commands.  Each is its name, the message it sends, the       *)
(* payload sent outside JSON, and whether the method is declared async.    *)
(***************************************************************************)
setMode(m) ==
  [method |-> "setMode", message |-> [message |-> "setMode", mode |-> m],
   payload |-> EmptyObject, async |-> TRUE]

loadTemplate(templateId) ==
  [method |-> "loadTemplate", message |-> [message |-> "setTemplate", templateId |-> templateId],
   payload |-> EmptyObject, async |-> TRUE]

cacheAsset(url, blob) ==
  [method |-> "cacheAsset", message |-> [message |-> "cacheAsset", url |-> url],
   payload |-> [blob |-> blob], async |-> FALSE]

setSource(source, createUndoPoint) ==
  [method |-> "setSource",
   message |-> [message |-> "setSource", source |-> source, createUndoPoint |-> createUndoPoint],
   payload |-> EmptyObject, async |-> TRUE]

setModifications(modifications) ==
  [method |-> "setModifications",
   message |-> [message |-> "setModifications", modifications |-> modifications],
   payload |-> EmptyObject, async |-> TRUE]

applyModifications(modifications) ==
  [method |-> "applyModifications",
   message |-> [message |-> "applyModifications", modifications |-> modifications],
   payload |-> EmptyObject, async |-> TRUE]

undo ==
  [method |-> "undo", message |-> [message |-> "undo"], payload |-> EmptyObject, async |-> TRUE]

redo ==
  [method |-> "redo", message |-> [message |-> "redo"], payload |-> EmptyObject, async |-> TRUE]

setTool(tool) ==
  [method |-> "setTool", message |-> [message |-> "setTool", tool |-> tool],
   payload |-> EmptyObject, async |-> TRUE]

setActiveElements(elementIds) ==
  [method |-> "setActiveElements",
   message |-> [message |-> "setActiveElements", elementIds |-> elementIds],
   payload |-> EmptyObject, async |-> TRUE]

setTime(time) ==
  [method |-> "setTime", message |-> [message |-> "setTime", time |-> time],
   payload |-> EmptyObject, async |-> TRUE]

play ==
  [method |-> "play", message |-> [message |-> "play"], payload |-> EmptyObject, async |-> TRUE]

pause ==
  [method |-> "pause", message |-> [message |-> "pause"], payload |-> EmptyObject, async |-> TRUE]

\* the public command methods
MethodNames ==
  {"setMode", "loadTemplate", "setSource", "setModifications", "applyModifications",
   "undo", "redo", "setTool", "setActiveElements", "setTime", "play", "pause", "cacheAsset"}

\* the texts with redo's copied from undo
PrefixCopied(method) ==
  CASE method = "setMode"            -> "Failed to set mode: "
    [] method = "loadTemplate"       -> "Failed to load template: "
    [] method = "setSource"          -> "Failed to set source: "
    [] method = "setModifications"   -> "Failed to set modifications: "
    [] method = "applyModifications" -> "Failed to apply modifications: "
    [] method = "undo"               -> "Failed to undo: "
    [] method = "redo"               -> "Failed to undo: "
    [] method = "setTool"            -> "Failed to set tool: "
    [] method = "setActiveElements"  -> "Failed to set active elements: "
    [] method = "setTime"            -> "Failed to set time: "
    [] method = "play"               -> "Failed to play: "
    [] method = "pause"              -> "Failed to pause: "
    [] method = "cacheAsset"         -> "Failed to cache asset: "

\* the text each method's catch handler puts before error.message
Prefix(method) ==
  CASE method = "setMode"            -> "Failed to set mode: "
    [] method = "loadTemplate"       -> "Failed to load template: "
    [] method = "setSource"          -> "Failed to set source: "
    [] method = "setModifications"   -> "Failed to set modifications: "
    [] method = "applyModifications" -> "Failed to apply modifications: "
    [] method = "undo"               -> "Failed to undo: "
    [] method = "redo"               -> "Failed to redo: "
    [] method = "setTool"            -> "Failed to set tool: "
    [] method = "setActiveElements"  -> "Failed to set active elements: "
    [] method = "setTime"            -> "Failed to set time: "
    [] method = "play"               -> "Failed to play: "
    [] method = "pause"              -> "Failed to pause: "
    [] method = "cacheAsset"         -> "Failed to cache asset: "

\* the methods that await the command and return nothing
ReturnsNothing == {"setMode", "loadTemplate", "setSource", "setTool", "setActiveElements"}

\* the promise a method returns, from the promise p of its command: the
\* catch handler throws new Error(`<prefix>${error.message}`)
MethodPromise(p) ==
  [status |-> p.status,
   value  |-> IF p.status = "resolved" /\ p.method \notin ReturnsNothing
                THEN p.value ELSE Undefined,
   reason |-> IF p.status = "rejected" THEN <<Prefix(p.method)>> \o p.reason ELSE <<>>]

\* a method that shows every command's success
ShowsIframeAlways(method) == TRUE

\* the methods that go on, once the command has succeeded, with
\* this._iframe.style.display = ''
ShowsIframe(method) == method \in {"loadTemplate", "setSource"}

\* the calls the application makes
Commands ==
  {loadTemplate("T1"), cacheAsset("U1", "B1")}

\* a public method is called with the instance as it is.  A throw of
\* _sendCommand leaves an async method as a rejected promise and a plain
\* method as an exception
Call(cmd) ==
  LET c == sendCommand(Context, cmd.method, cmd.message, cmd.payload)
     IN /\ c.issued <= MaxCommands
        /\ issued' = c.issued
        /\ promises' = c.promises
        /\ pendingPromises' = c.pendingPromises
        /\ outbox' = c.outbox
        /\ last' = [op |-> "call", method |-> cmd.method,
                    outcome |-> IF ~c.threw THEN "sent"
                                ELSE IF cmd.async THEN "rejected" ELSE "threw"]
        /\ UNCHANGED <<mode, ready, state, listening, attached, handlers, appTemplateId,
                     display, rendererRef, renderers, modificationsRef, addSlideCalls>>

\* a dispose that rejects the promises it finds in the table
disposeRejecting ==
  /\ listening' = FALSE
  /\ attached' = FALSE
  /\ promises' = [n \in DOMAIN promises |->
                    IF \E i \in DOMAIN pendingPromises : pendingPromises[i] = n
                      THEN Reject(promises[n], NewError("disposed"))
                      ELSE promises[n]]
  /\ pendingPromises' = EmptyObject
  /\ last' = [op |-> "dispose"]
  /\ UNCHANGED <<mode, ready, state, handlers, appTemplateId, display,
                 rendererRef, renderers, modificationsRef, addSlideCalls, issued, outbox>>

\* a dispose without line 138
disposeKeepsTable ==
  /\ listening' = FALSE
  /\ attached' = FALSE
  /\ last' = [op |-> "dispose"]
  /\ UNCHANGED <<mode, ready, state, pendingPromises, handlers, appTemplateId, display,
                 rendererRef, renderers, modificationsRef, addSlideCalls, issued, promises, outbox>>

\* a dispose that also puts the instance back to not ready
disposeResetsReady ==
  /\ listening' = FALSE
  /\ attached' = FALSE
  /\ pendingPromises' = EmptyObject
  /\ ready' = FALSE
  /\ last' = [op |-> "dispose"]
  /\ UNCHANGED <<mode, state, handlers, appTemplateId, display,
                 rendererRef, renderers, modificationsRef, addSlideCalls, issued, promises, outbox>>

(***************************************************************************)
(* Renderer.dispose.                                                       *)
(***************************************************************************)
dispose ==
  /\ listening' = FALSE
  /\ attached' = FALSE
  /\ pendingPromises' = EmptyObject
  /\ last' = [op |-> "dispose"]
  /\ UNCHANGED <<mode, ready, state, handlers, appTemplateId, display,
                 rendererRef, renderers, modificationsRef, addSlideCalls, issued, promises, outbox>>

(***************************************************************************)
(* Renderer._handleMessage.                                                *)
(***************************************************************************)
\* what typeof gives for a payload that is a truthy object
IsObject(p) == p.type = "object"

\* if (id): the identifier is present and truthy; 0 stands for the falsy ones
IdTruthy(d) == Has(d, "id") /\ d["id"] # 0

\* a test for the presence of the error field instead of its truthiness
ErrorPresent(d) == Has(d, "error")

\* if (error): the error is present and truthy; the empty text is falsy
ErrorTruthy(d) == Has(d, "error") /\ d["error"] # ""

\* the destructuring without the error: const { id, message, ...args } = e.data
ArgsWithError(d) == [k \in DOMAIN d \ {"id", "message"} |-> d[k]]

\* const { id, message, error, ...args } = e.data
Args(d) == [k \in DOMAIN d \ {"id", "message", "error"} |-> d[k]]

\* args.k, undefined when args has no such field
Arg(d, k) == IF Has(Args(d), k) THEN d[k] ELSE Undefined

\* a delete that removes nothing
DeleteNothing(o, k) == o

\* delete o[k]
Delete(o, k) == [j \in DOMAIN o \ {k} |-> o[j]]

\* an identifier that names a property every object inherits ('toString'):
\* _pendingPromises[id] is then truthy without being an entry of the table
IsInheritedKey(id) == id < 0

\* the reply branch without the clean-up of line 423
handleReplyKeepsEntry(c, d) ==
  LET id == d["id"] IN
  IF Has(c.pendingPromises, id)
    THEN LET n == c.pendingPromises[id] IN
         [c EXCEPT
            !.promises[n] = IF ErrorTruthy(d) THEN Reject(@, NewError(d["error"]))
                                              ELSE Resolve(@, Args(d))]
    ELSE c

\* the reply branch with a clean-up that empties the table
handleReplyClearsTable(c, d) ==
  LET id == d["id"] IN
  IF Has(c.pendingPromises, id)
    THEN LET n == c.pendingPromises[id] IN
         [c EXCEPT
            !.promises[n] = IF ErrorTruthy(d) THEN Reject(@, NewError(d["error"]))
                                              ELSE Resolve(@, Args(d)),
            !.pendingPromises = EmptyObject]
    ELSE c

\* the reply branch, lines 413-424
handleReply(c, d) ==
  LET id == d["id"] IN
  IF Has(c.pendingPromises, id)
    THEN LET n == c.pendingPromises[id] IN
         [c EXCEPT
            !.promises[n] = IF ErrorTruthy(d) THEN Reject(@, NewError(d["error"]))
                                              ELSE Resolve(@, Args(d)),
            !.pendingPromises = Delete(@, id),
            !.display = IF ~ErrorTruthy(d) /\ ShowsIframe(c.promises[n].method)
                          THEN "" ELSE @]
    ELSE IF IsInheritedKey(id)
      THEN [c EXCEPT !.threw = TRUE]   \* .resolve / .reject is not a function
      ELSE c

\* the onReady callback of the application, up to its await: it calls
\* renderer.loadTemplate with the template of the application
AppOnReady(c) ==
  LET cmd == loadTemplate(appTemplateId)
  IN sendCommand(c, cmd.method, cmd.message, cmd.payload)

\* a callback that is called without the check that it is assigned
CallbackUnchecked(c, name, arguments) ==
  [c EXCEPT !.callbacks =
     Append(@, [name |-> name, arguments |-> arguments,
                seen |-> [ready |-> c.ready, state |-> c.state,
                          posted |-> Len(c.outbox)]])]

\* one of the callbacks, called with the arguments when it is assigned; the
\* log keeps what the callback finds when it is called: ready, the state
\* mirror and the number of messages posted so far
Callback(c, name, arguments) ==
  IF name \in handlers
    THEN LET called == [c EXCEPT !.callbacks =
                          Append(@, [name |-> name, arguments |-> arguments,
                                     seen |-> [ready |-> c.ready, state |-> c.state,
                                               posted |-> Len(c.outbox)]])]
         IN IF name = "onReady" /\ appTemplateId # Undefined
              THEN AppOnReady(called)
              ELSE called
    ELSE c

\* the event branch with lines 482 and 483-485 in the other order
handleEventCallbackFirst(c, d) ==
  LET message == IF Has(d, "message") THEN d["message"] ELSE Undefined IN
  CASE message = "onReady" ->
         LET c1 == [c EXCEPT !.ready = TRUE]
             sm == setMode(mode)
             c2 == sendCommand(c1, sm.method, sm.message, sm.payload)
         IN Callback(c2, "onReady", <<>>)
    [] message \in {"onLoad", "onLoadComplete", "onPlay", "onPause"} ->
         Callback(c, message, <<>>)
    [] message = "onTimeChange" -> Callback(c, message, <<Arg(d, "time")>>)
    [] message = "onToolChange" -> Callback(c, message, <<Arg(d, "tool")>>)
    [] message = "onActiveElementsChange" -> Callback(c, message, <<Arg(d, "elementIds")>>)
    [] message = "onStateChange" ->
         [Callback(c, message, <<Arg(d, "state")>>) EXCEPT !.state = Arg(d, "state")]
    [] OTHER -> c

\* the event branch with lines 432 and 434 in the other order
handleEventReadyCallbackFirst(c, d) ==
  LET message == IF Has(d, "message") THEN d["message"] ELSE Undefined IN
  CASE message = "onReady" ->
         LET c1 == Callback([c EXCEPT !.ready = TRUE], "onReady", <<>>)
             sm == setMode(mode)
         IN sendCommand(c1, sm.method, sm.message, sm.payload)
    [] message \in {"onLoad", "onLoadComplete", "onPlay", "onPause"} ->
         Callback(c, message, <<>>)
    [] message = "onTimeChange" -> Callback(c, message, <<Arg(d, "time")>>)
    [] message = "onToolChange" -> Callback(c, message, <<Arg(d, "tool")>>)
    [] message = "onActiveElementsChange" -> Callback(c, message, <<Arg(d, "elementIds")>>)
    [] message = "onStateChange" ->
         Callback([c EXCEPT !.state = Arg(d, "state")], message, <<Arg(d, "state")>>)
    [] OTHER -> c

\* the event branch, lines 426-487
handleEvent(c, d) ==
  LET message == IF Has(d, "message") THEN d["message"] ELSE Undefined IN
  CASE message = "onReady" ->
         LET c1 == [c EXCEPT !.ready = TRUE]
             sm == setMode(mode)
             c2 == sendCommand(c1, sm.method, sm.message, sm.payload)
         IN Callback(c2, "onReady", <<>>)
    [] message \in {"onLoad", "onLoadComplete", "onPlay", "onPause"} ->
         Callback(c, message, <<>>)
    [] message = "onTimeChange" -> Callback(c, message, <<Arg(d, "time")>>)
    [] message = "onToolChange" -> Callback(c, message, <<Arg(d, "tool")>>)
    [] message = "onActiveElementsChange" -> Callback(c, message, <<Arg(d, "elementIds")>>)
    [] message = "onStateChange" ->
         Callback([c EXCEPT !.state = Arg(d, "state")], message, <<Arg(d, "state")>>)
    [] OTHER -> c

\* a handler without the guard of lines 406-408: destructuring undefined or
\* null throws, a string or a number has neither id nor message
handleMessageUnguarded(c, p) ==
  IF ~IsObject(p)
    THEN IF p.type \in {"undefined", "null"}
           THEN [c EXCEPT !.threw = TRUE]
           ELSE handleEvent(c, EmptyObject)
    ELSE IF IdTruthy(p.data) THEN handleReply(c, p.data) ELSE handleEvent(c, p.data)

\* a handler that goes on to the event branch after the reply branch
handleMessageAlsoEvent(c, p) ==
  IF ~IsObject(p)
    THEN c
    ELSE IF IdTruthy(p.data) THEN handleEvent(handleReply(c, p.data), p.data)
                             ELSE handleEvent(c, p.data)

\* a handler that treats a payload whose identifier it does not find as an event
handleMessageFallsThrough(c, p) ==
  IF ~IsObject(p)
    THEN c
    ELSE IF IdTruthy(p.data) /\ Has(c.pendingPromises, p.data["id"])
           THEN handleReply(c, p.data)
           ELSE handleEvent(c, p.data)

\* _handleMessage on the payload p of a message event
handleMessage(c, p) ==
  IF ~IsObject(p)
    THEN c
    ELSE IF IdTruthy(p.data) THEN handleReply(c, p.data) ELSE handleEvent(c, p.data)

(***************************************************************************)
(* The messages that reach the window.                                     *)
(***************************************************************************)
\* the identifiers a payload carries: those the instance may issue and one it never issues
ReplyIds == 1..(MaxCommands + 1)

Object(d) == [type |-> "object", data |-> d]

\* payloads that are no object: undefined, null, a string, a number
NonObjects == {[type |-> t, data |-> EmptyObject] : t \in {"undefined", "null", "string", "number"}}

\* what a reply carries besides its identifier
ReplyBodies ==
  {[value |-> 42], [error |-> "bad input"], [error |-> "", value |-> 42],
   [message |-> "onStateChange", state |-> "S1"]}

\* { id, error?, ...result }
Replies == {Object(Merge("id" :> i, b)) : i \in ReplyIds, b \in ReplyBodies}

\* { message, ...args }, also with a falsy identifier, with a name the
\* handler does not know, and without a name
Events ==
  {Object(d) : d \in {[message |-> "onReady"], [message |-> "onPlay"],
                      [message |-> "onStateChange", state |-> "S1"],
                      [message |-> "onStateChange"],
                      [message |-> "onResize"],
                      Merge("id" :> 0, [message |-> "onReady"])}}

\* a reply whose identifier is the name of an inherited property
Inherited == {Object("id" :> (0 - 1))}

Payloads == NonObjects \cup Replies \cup Events \cup Inherited

\* a message event is dispatched on the window: the handler runs when it is registered
\* a window that still calls a listener that was removed
DeliverWithinToRemoved(p, bound) ==
  LET c == handleMessage(Context, p)
     IN /\ c.issued <= bound
        /\ ready' = c.ready
        /\ state' = c.state
        /\ pendingPromises' = c.pendingPromises
        /\ issued' = c.issued
        /\ promises' = c.promises
        /\ outbox' = c.outbox
        /\ last' = [op |-> "message", payload |-> p, handled |-> TRUE,
                    callbacks |-> c.callbacks, threw |-> c.threw]
        /\ display' = c.display
        /\ UNCHANGED <<mode, listening, attached, handlers, appTemplateId,
                       rendererRef, renderers, modificationsRef, addSlideCalls>>

DeliverWithin(p, bound) ==
  LET c == IF listening THEN handleMessage(Context, p) ELSE Context
     IN /\ c.issued <= bound
        /\ ready' = c.ready
        /\ state' = c.state
        /\ pendingPromises' = c.pendingPromises
        /\ issued' = c.issued
        /\ promises' = c.promises
        /\ outbox' = c.outbox
        /\ last' = [op |-> "message", payload |-> p, handled |-> listening,
                    callbacks |-> c.callbacks, threw |-> c.threw]
        /\ display' = c.display
        /\ UNCHANGED <<mode, listening, attached, handlers, appTemplateId,
                       rendererRef, renderers, modificationsRef, addSlideCalls>>

Deliver(p) == DeliverWithin(p, MaxCommands)

Next ==
  \/ \E cmd \in Commands : Call(cmd)
  \/ \E p \in Payloads : Deliver(p)
  \/ dispose

Spec == Init /\ [][Next]_vars

(***************************************************************************)
(* The events of the embed, with every callback assigned or with two.      *)
(***************************************************************************)
InitEvents ==
  /\ mode = "player"
  /\ ready = FALSE
  /\ state = Undefined
  /\ pendingPromises = EmptyObject
  /\ listening = TRUE
  /\ attached = TRUE
  /\ handlers \in {EventNames, {"onPlay"}}
  /\ appTemplateId = Undefined
  /\ display = "none"
  /\ rendererRef = 0
  /\ renderers = <<>>
  /\ modificationsRef = EmptyObject
  /\ addSlideCalls = EmptyObject
  /\ issued = 0
  /\ promises = <<>>
  /\ outbox = <<>>
  /\ last = [op |-> "new"]

\* the fields an event carries besides its name
EventArgs == [time |-> "1.5", tool |-> "pen", elementIds |-> "E1,E2", state |-> "S1"]

\* { message, ...args } for every name the handler knows, for a name it does
\* not know and without a name; a second snapshot and a missing one
EventMessages ==
  {Object(Merge([message |-> m], EventArgs)) : m \in EventNames \cup {"onResize"}}
  \cup {Object(EventArgs),
        Object([message |-> "onStateChange", state |-> "S2"]),
        Object([message |-> "onStateChange"])}

\* { id, message, ...args }: a payload with an identifier and the name of an event
Hybrids ==
  {Object(Merge("id" :> i, Merge([message |-> m], EventArgs))) :
     i \in ReplyIds, m \in {"onReady", "onPlay", "onStateChange"}}

EventPayloads == EventMessages \cup Hybrids

NextEvents ==
  \/ Call(loadTemplate("T1"))
  \/ \E p \in EventPayloads : Deliver(p)
  \/ dispose

SpecEvents == InitEvents /\ [][NextEvents]_vars

(***************************************************************************)
(* Properties of the reply correlation.                                    *)
(***************************************************************************)
\* how often resolve or reject of a promise was called
Settlements(p) == p.resolves + p.rejects

\* the step is _handleMessage taking the reply branch for identifier i
HandledReplyStep(i) ==
  /\ last'.op = "message"
  /\ last'.handled
  /\ IsObject(last'.payload)
  /\ IdTruthy(last'.payload.data)
  /\ last'.payload.data["id"] = i

\* C1: the first reply the handler receives for the identifier of a command
\* that was sent settles that command's promise, and no other, and removes
\* the entry of the identifier; a later reply with the identifier changes
\* neither the promises nor the table.
FirstReplySettlesOnce ==
  [][\A i \in 1..issued :
       HandledReplyStep(i) =>
         IF Settlements(promises[i]) = 0
           THEN /\ Has(pendingPromises, i)
                /\ promises[i].id = i
                /\ promises'[i].status # "pending"
                /\ Settlements(promises'[i]) = 1
                /\ \A n \in DOMAIN promises \ {i} : promises'[n] = promises[n]
                /\ pendingPromises' = Delete(pendingPromises, i)
           ELSE /\ promises' = promises
                /\ pendingPromises' = pendingPromises]_vars

\* a second reply for the first command was handled after the first one settled it
DuplicateReplyHandled ==
  /\ issued >= 1
  /\ last.op = "message" /\ last.handled /\ IsObject(last.payload)
  /\ IdTruthy(last.payload.data) /\ last.payload.data["id"] = 1
  /\ promises[1].status = "rejected"
  /\ ~ErrorTruthy(last.payload.data)
  /\ ~Has(pendingPromises, 1)

\* C2: a command called while ready is false fails in the call: nothing is
\* posted, no identifier is generated, no promise is created and the pending
\* table gets no entry.
NotReadyCallSendsNothing ==
  [][(last'.op = "call" /\ ~ready) =>
       /\ last'.outcome \in {"threw", "rejected"}
       /\ UNCHANGED <<outbox, issued, promises, pendingPromises>>]_vars

\* cacheAsset threw on an instance that is not ready
CalledBeforeReady ==
  /\ ~ready
  /\ last.op = "call" /\ last.method = "cacheAsset" /\ last.outcome = "threw"
  /\ outbox = <<>> /\ issued = 0

\* the object o without the fields ks
Without(o, ks) == [k \in DOMAIN o \ ks |-> o[k]]

\* C3: a reply that carries the identifier of a pending command and an
\* error rejects that command's promise, never resolves it, and the message
\* of the rejection contains the error text of the reply.
ErrorReplyRejects ==
  [][\A i \in DOMAIN pendingPromises :
       LET d == last'.payload.data
           n == pendingPromises[i]
       IN (HandledReplyStep(i) /\ Has(d, "error") /\ d["error"] # "") =>
            /\ promises'[n].status = "rejected"
            /\ promises'[n].rejects = 1
            /\ promises'[n].resolves = 0
            /\ Contains(promises'[n].reason, d["error"])]_vars

\* the reply { id: 1, error: "bad input" } rejected the first command
RejectedWithBadInput ==
  /\ issued >= 1
  /\ last.op = "message" /\ last.handled
  /\ last.payload = Object(Merge("id" :> 1, [error |-> "bad input"]))
  /\ promises[1].status = "rejected"
  /\ promises[1].reason = <<"bad input">>

\* C4 as stated: a reply without an error for a pending command resolves the
\* promise to the reply without its identifier and error, every other field kept.
ResolvesToAllOtherFields ==
  [][\A i \in DOMAIN pendingPromises :
       LET d == last'.payload.data
           n == pendingPromises[i]
       IN (HandledReplyStep(i) /\ ~(Has(d, "error") /\ d["error"] # "")) =>
            /\ promises'[n].status = "resolved"
            /\ promises'[n].value = Without(d, {"id", "error"})]_vars

\* C4 as amended: a reply without an error for a pending command resolves the
\* promise to the reply without its identifier, its message and its error,
\* every other field kept.
ResolvesToRemainingFields ==
  [][\A i \in DOMAIN pendingPromises :
       LET d == last'.payload.data
           n == pendingPromises[i]
       IN (HandledReplyStep(i) /\ ~(Has(d, "error") /\ d["error"] # "")) =>
            /\ promises'[n].status = "resolved"
            /\ promises'[n].resolves = 1
            /\ promises'[n].value = Without(d, {"id", "message", "error"})]_vars

\* the reply { id: 1, value: 42 } resolved the first command to { value: 42 }
ResolvedToValue42 ==
  /\ issued >= 1
  /\ last.op = "message" /\ last.handled
  /\ last.payload = Object(Merge("id" :> 1, [value |-> 42]))
  /\ promises[1].status = "resolved"
  /\ promises[1].value = [value |-> 42]

\* C5: no promise of a command has resolve or reject called on it more than
\* once, none is both resolved and rejected, and a promise is settled exactly
\* when one of the two was called.
SettledAtMostOnce ==
  \A n \in DOMAIN promises :
    LET p == promises[n] IN
    /\ Settlements(p) <= 1
    /\ p.status = "pending" <=> Settlements(p) = 0
    /\ p.status = "resolved" => (p.resolves = 1 /\ p.rejects = 0)
    /\ p.status = "rejected" => (p.rejects = 1 /\ p.resolves = 0)

\* an error reply was handled again for a command it had already rejected,
\* next to a command that was resolved
ErrorRepliedTwice ==
  /\ issued >= 2
  /\ promises[1].status = "resolved"
  /\ promises[2].status = "rejected" /\ promises[2].rejects = 1
  /\ last.op = "message" /\ last.handled
  /\ last.payload = Object(Merge("id" :> 2, [error |-> "bad input"]))
  /\ ~Has(pendingPromises, 2)
  /\ outbox # <<>>

\* C6: a reply whose identifier is not in the pending table is dropped: the
\* table, ready, the state mirror and the promises stay as they are, nothing
\* is posted and no callback is called.
UnmatchedReplyDropped ==
  [][\A i \in ReplyIds \cup {0 - 1} :
       (HandledReplyStep(i) /\ ~Has(pendingPromises, i)) =>
         /\ UNCHANGED <<pendingPromises, ready, state, promises, outbox, issued>>
         /\ last'.callbacks = <<>>]_vars

\* a reply that names the event onStateChange was handled for a command
\* that had been rejected before, and the mirror has no snapshot
StaleReplyHandled ==
  /\ issued >= 1
  /\ promises[1].status = "rejected"
  /\ last.op = "message" /\ last.handled
  /\ last.payload = Object(Merge("id" :> 1, [message |-> "onStateChange", state |-> "S1"]))
  /\ "onStateChange" \in handlers
  /\ state = Undefined

\* C7: a promise changes only in a step in which the handler takes the reply
\* branch for the identifier of its command, and an entry leaves the pending
\* table only in such a step or in dispose: nothing else, and no passing of
\* time, settles a command or removes its entry.
SettledOnlyByItsReply ==
  [][/\ \A n \in DOMAIN promises :
          promises'[n] # promises[n] => HandledReplyStep(promises[n].id)
     /\ \A i \in DOMAIN pendingPromises :
          ~Has(pendingPromises', i) => (last'.op = "dispose" \/ HandledReplyStep(i))]_vars

\* the first command is still pending, in the table, after the second was
\* answered and an event was handled
UnansweredStaysPending ==
  /\ issued = 2
  /\ promises[1].status = "pending" /\ Has(pendingPromises, 1)
  /\ promises[2].status = "resolved"
  /\ last.op = "message" /\ last.handled
  /\ last.payload = Object([message |-> "onPlay"])

\* C8: dispose empties the pending table and settles no promise, and once
\* the instance is disposed a pending promise stays pending in every step,
\* also in one that delivers a reply with its identifier.
DisposeSettlesNothing ==
  [][/\ last'.op = "dispose" => (pendingPromises' = EmptyObject /\ promises' = promises)
     /\ ~listening =>
          \A n \in DOMAIN promises :
            promises[n].status = "pending" => promises'[n].status = "pending"]_vars

\* a reply for the first command arrived after dispose and the command is
\* still pending
RepliedAfterDispose ==
  /\ issued >= 1
  /\ ~listening
  /\ pendingPromises = EmptyObject
  /\ promises[1].status = "pending"
  /\ last.op = "message" /\ ~last.handled
  /\ last.payload = Object(Merge("id" :> 1, [value |-> 42]))

\* C9 as stated: every command that was accepted was posted exactly once,
\* under an identifier no other command has, and a pending entry is
\* registered under the identifier of its command.
EveryCommandPostedOnce ==
  /\ \A n \in DOMAIN promises :
       /\ Cardinality({k \in DOMAIN outbox : outbox[k]["id"] = promises[n].id}) = 1
       /\ \A m \in DOMAIN promises \ {n} : promises[m].id # promises[n].id
  /\ \A i \in DOMAIN pendingPromises : promises[pendingPromises[i]].id = i

\* C10: a reply leaves the promise of every command with another identifier
\* and every other entry of the pending table as they are, and so does the
\* sending of a further command, whatever the order of replies and sends.
ReplyTouchesOnlyItsCommand ==
  [][/\ \A i \in ReplyIds :
          HandledReplyStep(i) =>
            /\ \A n \in DOMAIN promises : promises[n].id # i => promises'[n] = promises[n]
            /\ \A j \in DOMAIN pendingPromises \ {i} :
                 Has(pendingPromises', j) /\ pendingPromises'[j] = pendingPromises[j]
     /\ last'.op = "call" =>
          /\ \A n \in DOMAIN promises : promises'[n] = promises[n]
          /\ \A j \in DOMAIN pendingPromises :
               Has(pendingPromises', j) /\ pendingPromises'[j] = pendingPromises[j]]_vars

\* with two commands outstanding the second was answered first
RepliedOutOfOrder ==
  /\ issued = 2
  /\ promises[1].status = "pending" /\ Has(pendingPromises, 1)
  /\ promises[2].status = "rejected"
  /\ last.op = "message" /\ last.handled
  /\ last.payload = Object(Merge("id" :> 2, [error |-> "bad input"]))

\* every public command method, called once it fits
Methods ==
  {setMode(m) : m \in Modes}
  \cup {loadTemplate("T1"), setSource("SRC", "false"), setModifications("MODS"),
        applyModifications("MODS"), undo, redo, setTool("pen"),
        setActiveElements("E1,E2"), setTime("1.5"), play, pause, cacheAsset("U1", "B1")}

\* the error text of the embed
Errors == {"timeout"}

MethodPayloads ==
  {Object([message |-> "onReady"])}
  \cup {Object(Merge("id" :> i, b)) :
          i \in ReplyIds, b \in {EmptyObject} \cup {[error |-> e] : e \in Errors}}

NextMethods ==
  \/ \E cmd \in Methods : Call(cmd)
  \/ \E p \in MethodPayloads : Deliver(p)
  \/ dispose

SpecMethods == Init /\ [][NextMethods]_vars

(***************************************************************************)
(* The tree utilities over the state mirror.  A snapshot or an element is  *)
(* an object with a source and, optionally, a list of elements; a value    *)
(* that may be absent is Object(node) or Absent.                           *)
(***************************************************************************)
MaxNodes == 4

Absent == [type |-> "undefined", data |-> EmptyObject]

\* the sources of the node at a path: named after the path, with or without a type
Sources(path) == {[name |-> path], [name |-> path, type |-> "text"]}

RECURSIVE TreesAt(_, _), ForestsAt(_, _, _)
\* the trees of exactly n nodes whose root is at the path
TreesAt(path, n) ==
  IF n = 1
    THEN {[source |-> s] : s \in Sources(path)}
         \cup {[source |-> s, elements |-> <<>>] : s \in Sources(path)}
    ELSE {[source |-> s, elements |-> f] :
            s \in Sources(path), f \in ForestsAt(path, 1, n - 1)}

\* the lists of trees of m nodes in all, the first of them the k-th child
ForestsAt(path, k, m) ==
  UNION {{<<t>> \o rest :
            t \in TreesAt(path \o <<k>>, j),
            rest \in IF j = m THEN {<<>>} ELSE ForestsAt(path, k + 1, m - j)} :
         j \in 1..m}

Trees == UNION {TreesAt(<<>>, n) : n \in 1..MaxNodes}

\* a source without the nested sources: only the sources of the children
getSourceFlat(s) ==
  IF ~IsObject(s)
    THEN EmptyObject
    ELSE IF Has(s.data, "elements")
      THEN Merge(s.data["source"],
                 [elements |-> [i \in DOMAIN s.data["elements"] |->
                                  s.data["elements"][i]["source"]]])
      ELSE s.data["source"]

RECURSIVE getSource(_)
getSource(s) ==
  IF ~IsObject(s)
    THEN EmptyObject
    ELSE IF Has(s.data, "elements")
      THEN Merge(s.data["source"],
                 [elements |-> [i \in DOMAIN s.data["elements"] |->
                                  getSource(Object(s.data["elements"][i]))]])
      ELSE s.data["source"]

RECURSIVE Concat(_)
\* elements.push(...list) for each list in turn
Concat(lists) == IF lists = <<>> THEN <<>> ELSE Head(lists) \o Concat(Tail(lists))

RECURSIVE getElementsChildrenFirst(_)
\* a flattening that pushes a node after the nodes nested in it
getElementsChildrenFirst(s) ==
  IF ~IsObject(s)
    THEN <<>>
    ELSE (IF Has(s.data, "elements")
            THEN Concat([i \in DOMAIN s.data["elements"] |->
                           getElementsChildrenFirst(Object(s.data["elements"][i]))])
            ELSE <<>>) \o
         (IF Has(s.data["source"], "type") THEN <<s.data>> ELSE <<>>)

RECURSIVE getElementsOfTyped(_)
\* a flattening that does not descend into a node without a type
getElementsOfTyped(s) ==
  IF ~IsObject(s) \/ ~Has(s.data["source"], "type")
    THEN <<>>
    ELSE <<s.data>> \o
         (IF Has(s.data, "elements")
            THEN Concat([i \in DOMAIN s.data["elements"] |->
                           getElementsOfTyped(Object(s.data["elements"][i]))])
            ELSE <<>>)

RECURSIVE getElements(_)
getElements(s) ==
  IF ~IsObject(s)
    THEN <<>>
    ELSE (IF Has(s.data["source"], "type") THEN <<s.data>> ELSE <<>>) \o
         (IF Has(s.data, "elements")
            THEN Concat([i \in DOMAIN s.data["elements"] |->
                           getElements(Object(s.data["elements"][i]))])
            ELSE <<>>)

\* the predicates an application passes to findElement
Predicates == {"typed", "untyped", "childless", "none"}

\* predicate(element)
Test(predicate, element) ==
  CASE predicate = "typed"     -> Has(element["source"], "type")
    [] predicate = "untyped"   -> ~Has(element["source"], "type")
    [] predicate = "childless" -> ~Has(element, "elements")
    [] predicate = "none"      -> FALSE

RECURSIVE findElementSiblingsFirst(_, _)
\* a search that tries every element of a list before it descends into any
findElementSiblingsFirst(predicate, s) ==
  IF IsObject(s) /\ Has(s.data, "elements")
    THEN LET elements == s.data["elements"]
             hits == {k \in DOMAIN elements : Test(predicate, elements[k])}
             found == [k \in DOMAIN elements |->
                         findElementSiblingsFirst(predicate, Object(elements[k]))]
             nested == {k \in DOMAIN elements : IsObject(found[k])}
         IN IF hits # {}
              THEN Object(elements[CHOOSE k \in hits : \A h \in hits : k <= h])
              ELSE IF nested # {}
                THEN found[CHOOSE k \in nested : \A h \in nested : k <= h]
                ELSE Absent
    ELSE Absent

RECURSIVE findElement(_, _), findElementFrom(_, _, _)
findElement(predicate, s) ==
  IF IsObject(s) /\ Has(s.data, "elements")
    THEN findElementFrom(predicate, s.data["elements"], 1)
    ELSE Absent

\* the loop of lines 243-254 from its k-th iteration on
findElementFrom(predicate, elements, k) ==
  IF k > Len(elements)
    THEN Absent
    ELSE LET element == elements[k] IN
         IF Test(predicate, element)
           THEN Object(element)
           ELSE LET foundNestedElement ==
                      IF Has(element, "elements")
                        THEN findElement(predicate, Object(element))
                        ELSE Absent
                IN IF IsObject(foundNestedElement)
                     THEN foundNestedElement
                     ELSE findElementFrom(predicate, elements, k + 1)

RECURSIVE NodesOf(_)
\* the node and the elements nested in it
NodesOf(node) ==
  {node} \cup (IF Has(node, "elements")
                 THEN UNION {NodesOf(node["elements"][i]) : i \in DOMAIN node["elements"]}
                 ELSE {})

\* what an application passes as state: nothing, or a node of the mirror
Arguments == {Absent} \cup (IF IsObject(state) THEN {Object(n) : n \in NodesOf(state.data)} ELSE {})

\* the default of the parameter: state = this.state
StateOr(argument) == IF IsObject(argument) THEN argument ELSE state

CallGetSource(argument) ==
  /\ last' = [op |-> "getSource", argument |-> argument,
              result |-> getSource(StateOr(argument))]
  /\ UNCHANGED <<mode, ready, state, pendingPromises, listening, attached, handlers,
                 appTemplateId, display,
                 rendererRef, renderers, modificationsRef, addSlideCalls, issued, promises, outbox>>

CallGetElements(argument) ==
  /\ last' = [op |-> "getElements", argument |-> argument,
              result |-> getElements(StateOr(argument))]
  /\ UNCHANGED <<mode, ready, state, pendingPromises, listening, attached, handlers,
                 appTemplateId, display,
                 rendererRef, renderers, modificationsRef, addSlideCalls, issued, promises, outbox>>

CallFindElement(predicate, argument) ==
  /\ last' = [op |-> "findElement", predicate |-> predicate, argument |-> argument,
              result |-> findElement(predicate, StateOr(argument))]
  /\ UNCHANGED <<mode, ready, state, pendingPromises, listening, attached, handlers,
                 appTemplateId, display,
                 rendererRef, renderers, modificationsRef, addSlideCalls, issued, promises, outbox>>

\* a renderer whose mirror holds a snapshot, or none yet
InitTree ==
  /\ mode = "player"
  /\ ready = FALSE
  /\ state \in {Absent} \cup {Object(t) : t \in Trees}
  /\ pendingPromises = EmptyObject
  /\ listening = TRUE
  /\ attached = TRUE
  /\ handlers = {"onReady", "onLoad", "onLoadComplete", "onStateChange"}
  /\ appTemplateId = Undefined
  /\ display = "none"
  /\ rendererRef = 0
  /\ renderers = <<>>
  /\ modificationsRef = EmptyObject
  /\ addSlideCalls = EmptyObject
  /\ issued = 0
  /\ promises = <<>>
  /\ outbox = <<>>
  /\ last = [op |-> "new"]

NextTree ==
  \/ \E argument \in Arguments : CallGetSource(argument)
  \/ \E argument \in Arguments : CallGetElements(argument)
  \/ \E predicate \in Predicates, argument \in Arguments : CallFindElement(predicate, argument)

SpecTree == InitTree /\ [][NextTree]_vars

(***************************************************************************)
(* The renderer as the application sets it up: its onReady callback loads  *)
(* the template.                                                           *)
(***************************************************************************)
MaxReadyEvents == 2

\* process.env.NEXT_PUBLIC_TEMPLATE_ID
TEMPLATE_ID == "T1"

InitApp ==
  /\ mode = "player"
  /\ ready = FALSE
  /\ state = Undefined
  /\ pendingPromises = EmptyObject
  /\ listening = TRUE
  /\ attached = TRUE
  /\ handlers = {"onReady", "onLoad", "onLoadComplete", "onStateChange"}
  /\ appTemplateId = TEMPLATE_ID
  /\ display = "none"
  /\ rendererRef = 0
  /\ renderers = <<>>
  /\ modificationsRef = EmptyObject
  /\ addSlideCalls = EmptyObject
  /\ issued = 0
  /\ promises = <<>>
  /\ outbox = <<>>
  /\ last = [op |-> "new"]

\* a ready event sends two commands
AppReplyIds == 1..(2 * MaxReadyEvents)

AppPayloads ==
  {Object([message |-> "onReady"]), Object([message |-> "onLoad"])}
  \cup {Object(Merge("id" :> i, b)) :
          i \in AppReplyIds, b \in {EmptyObject, [error |-> "timeout"]}}

NextApp ==
  \/ \E p \in AppPayloads : DeliverWithin(p, 2 * MaxReadyEvents)
  \/ dispose

SpecApp == InitApp /\ [][NextApp]_vars

(***************************************************************************)
(* The application setting up its renderer: every instance it constructs   *)
(* is kept in renderers with its element, its listener and its own         *)
(* context; the variables of the single instance above are not used.       *)
(***************************************************************************)
MaxRenderers == 3

\* the DIV elements React passes to the ref callback, and null
HtmlElements == {"div1", "div2"}

Null == "null"

\* new Renderer(htmlElement, 'player', token) with the callbacks assigned
NewRenderer(element) ==
  [element |-> element, listening |-> TRUE, attached |-> TRUE,
   context |-> [ready |-> FALSE, state |-> Undefined, pendingPromises |-> EmptyObject,
                issued |-> 0, promises |-> <<>>, outbox |-> <<>>, display |-> "none",
                callbacks |-> <<>>, threw |-> FALSE]]

\* renderer.dispose()
DisposeRenderer(r) ==
  [r EXCEPT !.listening = FALSE, !.attached = FALSE,
            !.context.pendingPromises = EmptyObject]

\* a set-up that constructs the new instance without disposing the previous one
setUpRendererKeepsPrevious(htmlElement) ==
  /\ Len(renderers) < MaxRenderers
  /\ renderers' = Append(renderers, NewRenderer(htmlElement))
  /\ rendererRef' = Len(renderers) + 1
  /\ last' = [op |-> "setUpRenderer", element |-> htmlElement]
  /\ UNCHANGED <<mode, ready, state, pendingPromises, listening, attached, handlers,
                 appTemplateId, display, issued, promises, outbox, modificationsRef, addSlideCalls>>

setUpRenderer(htmlElement) ==
  LET disposed == IF rendererRef # 0
                    THEN [renderers EXCEPT ![rendererRef] = DisposeRenderer(@)]
                    ELSE renderers
  IN /\ Len(renderers) < MaxRenderers
     /\ renderers' = Append(disposed, NewRenderer(htmlElement))
     /\ rendererRef' = Len(renderers) + 1
     /\ last' = [op |-> "setUpRenderer", element |-> htmlElement]
     /\ UNCHANGED <<mode, ready, state, pendingPromises, listening, attached, handlers,
                    appTemplateId, display, issued, promises, outbox, modificationsRef, addSlideCalls>>

\* the ref callback of the Container, lines 60-64
ContainerRef(htmlElement) ==
  /\ htmlElement # Null
  /\ IF rendererRef = 0 THEN TRUE ELSE renderers[rendererRef].element # htmlElement
  /\ setUpRenderer(htmlElement)

\* a message event of the window: every listener that is registered is called
WindowMessage(p) ==
  LET handle(r) ==
        IF r.listening
          THEN [r EXCEPT !.context = [handleMessage(@, p) EXCEPT !.callbacks = <<>>,
                                                               !.threw = FALSE]]
          ELSE r
  IN /\ renderers # <<>>
     /\ \A i \in DOMAIN renderers : handle(renderers[i]).context.issued <= MaxCommands
     /\ renderers' = [i \in DOMAIN renderers |-> handle(renderers[i])]
     /\ last' = [op |-> "windowMessage", payload |-> p,
                 handledBy |-> {i \in DOMAIN renderers : renderers[i].listening}]
     /\ UNCHANGED <<mode, ready, state, pendingPromises, listening, attached, handlers,
                    appTemplateId, display, issued, promises, outbox, rendererRef,
                    modificationsRef, addSlideCalls>>

SetUpPayloads ==
  {Object([message |-> "onReady"]),
   Object([message |-> "onStateChange", state |-> "S1"]),
   Object(Merge("id" :> 2, EmptyObject))}

InitSetUp ==
  /\ mode = "player"
  /\ ready = FALSE
  /\ state = Undefined
  /\ pendingPromises = EmptyObject
  /\ listening = TRUE
  /\ attached = TRUE
  /\ handlers = {"onReady", "onLoad", "onLoadComplete", "onStateChange"}
  /\ appTemplateId = TEMPLATE_ID
  /\ display = "none"
  /\ rendererRef = 0
  /\ renderers = <<>>
  /\ modificationsRef = EmptyObject
  /\ addSlideCalls = EmptyObject
  /\ issued = 0
  /\ promises = <<>>
  /\ outbox = <<>>
  /\ last = [op |-> "new"]

NextSetUp ==
  \/ \E htmlElement \in HtmlElements \cup {Null} : ContainerRef(htmlElement)
  \/ \E p \in SetUpPayloads : WindowMessage(p)

SpecSetUp == InitSetUp /\ [][NextSetUp]_vars

(***************************************************************************)
(* The settings panel of the application.  A text is the list of its       *)
(* characters.                                                             *)
(***************************************************************************)
MaxValueLen == 1

MaxEdits == 3

Characters == {"a", " "}

WhiteSpace == {" "}

\* e.target.value of an input
Values == UNION {[1..n -> Characters] : n \in 0..MaxValueLen}

\* the names of the elements the inputs are for
Selectors == {"Title", "Tagline"}

RECURSIVE trimStart(_)
trimStart(value) ==
  IF value # <<>> /\ Head(value) \in WhiteSpace THEN trimStart(Tail(value)) ELSE value

RECURSIVE trimEnd(_)
trimEnd(value) ==
  IF value # <<>> /\ value[Len(value)] \in WhiteSpace
    THEN trimEnd(SubSeq(value, 1, Len(value) - 1))
    ELSE value

\* a trim that leaves the white space
trimNothing(value) == value

\* value.trim()
trim(value) == trimEnd(trimStart(value))

\* App's isReady: set once the loadTemplate of the onReady callback has resolved;
\* the panel is rendered only then
isReady ==
  \E n \in DOMAIN promises :
    promises[n].method = "loadTemplate" /\ promises[n].status = "resolved"

\* an input of the rendered panel changes
setPropertyValue(selector, value) ==
  LET m == IF trim(value) # <<>>
             THEN Merge(modificationsRef, selector :> value)
             ELSE Delete(modificationsRef, selector)
      cmd == setModifications(m)
      c == sendCommand(Context, cmd.method, cmd.message, cmd.payload)
  IN /\ isReady
     /\ c.issued <= 2 + MaxEdits
     /\ modificationsRef' = m
     /\ issued' = c.issued
     /\ promises' = c.promises
     /\ pendingPromises' = c.pendingPromises
     /\ outbox' = c.outbox
     /\ last' = [op |-> "setPropertyValue", selector |-> selector, value |-> value,
                 outcome |-> IF c.threw THEN "rejected" ELSE "sent"]
     /\ UNCHANGED <<mode, ready, state, listening, attached, handlers, appTemplateId,
                    display, rendererRef, renderers, addSlideCalls>>

PanelPayloads ==
  {Object([message |-> "onReady"]), Object(Merge("id" :> 2, EmptyObject)),
   Object(Merge("id" :> 3, [error |-> "timeout"]))}

NextPanel ==
  \/ \E p \in PanelPayloads : DeliverWithin(p, 2 + MaxEdits)
  \/ \E selector \in Selectors, value \in Values : setPropertyValue(selector, value)

SpecPanel == InitApp /\ [][NextPanel]_vars

(***************************************************************************)
(* The slides of the settings panel.  A name is the list of its parts:     *)
(* 'Slide-2-Text' is <<"Slide-", 2, "-Text">>.  Times are in tenths of a   *)
(* second.  The styling properties of the elements are left out.           *)
(***************************************************************************)
MaxElements == 3

MaxSlides == 2

\* element.name?.startsWith('Slide-')
startsWithSlide(element) ==
  Has(element, "name") /\ element["name"] # <<>> /\ Head(element["name"]) = "Slide-"

\* elements.findLastIndex(startsWith 'Slide-'): an index that counts from 0, or -1
findLastIndex(elements) ==
  LET found == {i \in DOMAIN elements : startsWithSlide(elements[i])}
  IN IF found = {}
       THEN 0 - 1
       ELSE (CHOOSE i \in found : \A j \in found : j <= i) - 1

\* elements.splice(start, 0, item)
splice(elements, start, item) ==
  SubSeq(elements, 1, start) \o <<item>> \o SubSeq(elements, start + 1, Len(elements))

createSlide(slideName, caption) ==
  [name |-> slideName, type |-> "composition", track |-> 1, duration |-> 40,
   animations |-> <<[type |-> "fade", duration |-> 10, transition |-> TRUE]>>,
   elements |->
     <<[name |-> slideName \o <<"-Image">>, type |-> "image",
        animations |-> <<[type |-> "scale"]>>, source |-> "samuel-ferrara.jpg"],
       [name |-> slideName \o <<"-Text">>, type |-> "text", time |-> 5, duration |-> 35,
        animations |-> <<[type |-> "text-slide"], [type |-> "scale"]>>,
        text |-> caption]>>]

\* the top-level elements a template is made of: an audio track, an intro
\* with a title, numbered slides, and an element without a name
TemplateElements ==
  {[name |-> <<"Music">>, type |-> "audio", time |-> 0, source |-> "music.mp3"],
   [name |-> <<"Intro">>, type |-> "composition", time |-> 0,
    elements |-> <<[name |-> <<"Title">>, type |-> "text", text |-> <<"title">>]>>],
   Merge(createSlide(<<"Slide-", 1>>, <<"caption", 1>>), [time |-> 40]),
   Merge(createSlide(<<"Slide-", 2>>, <<"caption", 2>>), [time |-> 80]),
   [type |-> "shape"]}

\* the sources of the templates: up to MaxElements different elements in any
\* order, or no list of elements
TemplateSources ==
  {[output_format |-> "mp4", duration |-> 200]}
  \cup {[output_format |-> "mp4", duration |-> 200, elements |-> elements] :
          elements \in {e \in UNION {[1..n -> TemplateElements] : n \in 0..MaxElements} :
                          \A i, j \in DOMAIN e : e[i] = e[j] => i = j}}

RECURSIVE Snapshot(_, _)
\* the state the embed reports for a source that starts at a time
Snapshot(source, start) ==
  LET globalTime == start + (IF Has(source, "time") THEN source["time"] ELSE 0)
      node == [source |-> Delete(source, "elements"), globalTime |-> globalTime]
  IN IF Has(source, "elements")
       THEN Merge(node, [elements |-> [i \in DOMAIN source["elements"] |->
                                         Snapshot(source["elements"][i], globalTime)]])
       ELSE node

\* ensureElementVisibility(preview, elementName, addTime)
ensureElementVisibility(c, elementName, addTime) ==
  LET elements == getElements(c.state)
      found == {i \in DOMAIN elements :
                  /\ Has(elements[i]["source"], "name")
                  /\ elements[i]["source"]["name"] = elementName}
  IN IF found = {}
       THEN c
       ELSE LET element == elements[CHOOSE i \in found : \A j \in found : i <= j]
                cmd == setTime(ToString(element["globalTime"] + addTime))
            IN sendCommand(c, cmd.method, cmd.message, cmd.payload)

\* the commands of one ready event, and of MaxSlides slides a setSource and a setTime each
SlideCommands == 2 + 2 * MaxSlides

\* addSlide up to its await of preview.setSource
addSlide ==
  LET source == getSource(state)
      \* getSource returns state.source itself where the state has no elements:
      \* the deletes then write to the mirror
      mirror ==
        IF ~IsObject(state)
          THEN state
          ELSE IF ~Has(state.data, "elements")
            THEN Object([state.data EXCEPT !["source"] = Delete(@, "duration")])
            ELSE Object([state.data EXCEPT !["elements"] =
                   [i \in DOMAIN @ |->
                      IF Has(@[i], "elements")
                        THEN @[i]
                        ELSE [@[i] EXCEPT !["source"] = Delete(@, "time")]]])
      \* for (const element of undefined) throws
      threw == ~Has(source, "elements")
      elements == [i \in DOMAIN source["elements"] |-> Delete(source["elements"][i], "time")]
      lastSlideIndex == findLastIndex(elements)
      slideName == <<"Slide-", lastSlideIndex>>
      newSlideSource == createSlide(slideName, <<"caption", lastSlideIndex>>)
      newSource == Merge(Delete(source, "duration"),
                         [elements |-> splice(elements, lastSlideIndex + 1, newSlideSource)])
      cmd == setSource(newSource, "false")
      c == sendCommand([Context EXCEPT !.state = mirror], cmd.method, cmd.message, cmd.payload)
  IN /\ isReady
     /\ Cardinality({n \in DOMAIN promises : promises[n].method = "setSource"}) < MaxSlides
     /\ state' = mirror
     /\ IF threw
          THEN /\ last' = [op |-> "addSlide", source |-> source, outcome |-> "threw"]
               /\ UNCHANGED <<issued, promises, pendingPromises, outbox, addSlideCalls>>
          ELSE IF lastSlideIndex = 0 - 1
            THEN /\ last' = [op |-> "addSlide", source |-> source, outcome |-> "nothing"]
                 /\ UNCHANGED <<issued, promises, pendingPromises, outbox, addSlideCalls>>
            ELSE /\ issued' = c.issued
                 /\ promises' = c.promises
                 /\ pendingPromises' = c.pendingPromises
                 /\ outbox' = c.outbox
                 /\ addSlideCalls' = Merge(addSlideCalls, c.issued :> slideName)
                 /\ last' = [op |-> "addSlide", source |-> source, outcome |-> "sent",
                             slideName |-> slideName, sent |-> newSource]
     /\ UNCHANGED <<mode, ready, listening, attached, handlers, appTemplateId, display,
                    rendererRef, renderers, modificationsRef>>

\* a message event on the window: _handleMessage, and then the call of
\* addSlide whose setSource the message resolved goes on after its await
DeliverToPanel(p) ==
  LET c == IF listening THEN handleMessage(Context, p) ELSE Context
      resolved == {id \in DOMAIN addSlideCalls : c.promises[id].status = "resolved"}
      c2 == IF resolved = {}
              THEN c
              ELSE ensureElementVisibility(
                     c, addSlideCalls[CHOOSE id \in resolved : TRUE] \o <<"-Text">>, 15)
  IN /\ c2.issued <= SlideCommands
     /\ ready' = c2.ready
     /\ state' = c2.state
     /\ pendingPromises' = c2.pendingPromises
     /\ issued' = c2.issued
     /\ promises' = c2.promises
     /\ outbox' = c2.outbox
     /\ display' = c2.display
     /\ addSlideCalls' = [id \in {i \in DOMAIN addSlideCalls :
                                    c.promises[i].status = "pending"} |-> addSlideCalls[id]]
     /\ last' = [op |-> "message", payload |-> p, handled |-> listening,
                 callbacks |-> c2.callbacks, threw |-> c2.threw]
     /\ UNCHANGED <<mode, listening, attached, handlers, appTemplateId,
                    rendererRef, renderers, modificationsRef>>

\* the sources the embed was sent, in order
SentSources ==
  SelectSeq(outbox, LAMBDA m : m["message"] = "setSource")

\* the snapshots the embed reports: of the template it loaded, then of the
\* source it was sent last
Snapshots ==
  IF SentSources # <<>>
    THEN {Snapshot(SentSources[Len(SentSources)]["source"], 0)}
    ELSE IF isReady /\ ~IsObject(state)
      THEN {Snapshot(source, 0) : source \in TemplateSources}
      ELSE {}

\* what the embed posts: that it is ready, once; a reply to a command it has
\* not answered, which for a setSource may be an error; a snapshot
SlidePayloads ==
  (IF ready THEN {} ELSE {Object([message |-> "onReady"])})
  \cup {Object(Merge("id" :> i, EmptyObject)) : i \in DOMAIN pendingPromises}
  \cup {Object(Merge("id" :> i, [error |-> "timeout"])) : i \in DOMAIN addSlideCalls}
  \cup {Object([message |-> "onStateChange", state |-> Object(snapshot)]) :
          snapshot \in Snapshots}

InitSlides ==
  /\ mode = "player"
  /\ ready = FALSE
  /\ state = Absent
  /\ pendingPromises = EmptyObject
  /\ listening = TRUE
  /\ attached = TRUE
  /\ handlers = {"onReady", "onLoad", "onLoadComplete", "onStateChange"}
  /\ appTemplateId = TEMPLATE_ID
  /\ display = "none"
  /\ rendererRef = 0
  /\ renderers = <<>>
  /\ modificationsRef = EmptyObject
  /\ addSlideCalls = EmptyObject
  /\ issued = 0
  /\ promises = <<>>
  /\ outbox = <<>>
  /\ last = [op |-> "new"]

NextSlides ==
  \/ \E p \in SlidePayloads : DeliverToPanel(p)
  \/ addSlide

SpecSlides == InitSlides /\ [][NextSlides]_vars

(***************************************************************************)
(* Properties of the event dispatch.                                       *)
(***************************************************************************)
\* the name of the event a payload carries
MessageOf(d) == IF Has(d, "message") THEN d["message"] ELSE Undefined

\* the step is _handleMessage taking the event branch
HandledEventStep ==
  /\ last'.op = "message"
  /\ last'.handled
  /\ IsObject(last'.payload)
  /\ ~IdTruthy(last'.payload.data)

\* at most one callback ran, the one assigned for the name m, and onPlay
\* without arguments; none ran when none is assigned for m or m is no event
CalledTheCallbackOf(m, callbacks) ==
  IF m \in EventNames \cap handlers
    THEN /\ Len(callbacks) = 1
         /\ callbacks[1].name = m
         /\ m = "onPlay" => callbacks[1].arguments = <<>>
    ELSE callbacks = <<>>

\* C11 as stated: an object without an identifier runs at most one callback,
\* the one assigned for its event name (onPlay without arguments); when none
\* is assigned for the name, or the name is no event, no callback runs and
\* the pending table is unchanged.
EventRunsItsCallbackOnly ==
  [][HandledEventStep =>
       /\ CalledTheCallbackOf(MessageOf(last'.payload.data), last'.callbacks)
       /\ last'.callbacks = <<>> => pendingPromises' = pendingPromises]_vars

\* C11 as amended: the same, but the pending table is unchanged by every
\* event except onReady, which adds the entry of the setMode command it
\* sends whether or not a callback is assigned.
EventRunsItsCallbackOnlyButReady ==
  [][HandledEventStep =>
       LET m == MessageOf(last'.payload.data) IN
       /\ CalledTheCallbackOf(m, last'.callbacks)
       /\ m # "onReady" => pendingPromises' = pendingPromises
       /\ m = "onReady" =>
            /\ DOMAIN pendingPromises' = DOMAIN pendingPromises \cup {issued'}
            /\ issued' = issued + 1
            /\ promises'[pendingPromises'[issued']].method = "setMode"
            /\ \A i \in DOMAIN pendingPromises : pendingPromises'[i] = pendingPromises[i]]_vars

\* onPlay ran without arguments, with commands pending
PlayCallbackCalled ==
  /\ last.op = "message" /\ last.handled
  /\ last.payload = Object(Merge([message |-> "onPlay"], EventArgs))
  /\ Len(last.callbacks) = 1
  /\ last.callbacks[1].name = "onPlay" /\ last.callbacks[1].arguments = <<>>
  /\ DOMAIN pendingPromises = {1, 2}

\* C12: a payload with an identifier is handled as a reply and not as an
\* event, also when it names an event: ready and the state mirror stay as
\* they are, no callback runs, no command is sent, and when the identifier is
\* in the table its promise is settled and its entry removed.
IdentifiedPayloadIsReply ==
  [][\A i \in ReplyIds :
       HandledReplyStep(i) =>
         /\ UNCHANGED <<ready, state, issued, outbox>>
         /\ last'.callbacks = <<>>
         /\ Has(pendingPromises, i) =>
              /\ ~Has(pendingPromises', i)
              /\ promises'[pendingPromises[i]].status # "pending"]_vars

\* a payload { id: 1, message: 'onReady' } settled the first command, with
\* an onReady callback assigned, and sent nothing
ReadyNamedReplyHandled ==
  /\ issued = 1
  /\ "onReady" \in handlers
  /\ last.op = "message" /\ last.handled
  /\ last.payload = Object(Merge("id" :> 1, Merge([message |-> "onReady"], EventArgs)))
  /\ promises[1].status = "resolved"
  /\ last.callbacks = <<>>
  /\ Len(outbox) = 1

NonObjectIgnored ==
  [][(/\ last'.op = "message"
      /\ last'.handled
      /\ ~IsObject(last'.payload)) =>
       /\ UNCHANGED <<mode, ready, state, pendingPromises, issued, promises,
                      outbox, listening, attached, handlers, appTemplateId,
                     display, rendererRef, renderers, modificationsRef, addSlideCalls>>
       /\ last'.callbacks = <<>>
       /\ ~last'.threw]_vars

\* null arrived with two commands pending and a snapshot mirrored
NullHandledWhilePending ==
  /\ last.op = "message" /\ last.handled
  /\ last.payload.type = "null"
  /\ DOMAIN pendingPromises = {1, 2}
  /\ ready
  /\ state = "S1"

(***************************************************************************)
(* Properties of the public command methods.                               *)
(***************************************************************************)
\* C14: an error reply E to the command of a public method rejects the
\* method's promise with that method's prefix followed by E ('Failed to set
\* mode: ' for setMode, 'Failed to load template: ' for loadTemplate), and
\* never with the prefix of another method.
RejectsWithOwnPrefix ==
  [][\A i \in ReplyIds :
       (/\ HandledReplyStep(i)
        /\ Has(pendingPromises, i)
        /\ ErrorTruthy(last'.payload.data)) =>
         LET p == promises'[pendingPromises[i]]
             o == MethodPromise(p)
         IN /\ p.method \in MethodNames
            /\ o.status = "rejected"
            /\ Len(o.reason) = 2
            /\ o.reason[2] = last'.payload.data["error"]
            /\ p.method = "setMode" => o.reason[1] = "Failed to set mode: "
            /\ p.method = "loadTemplate" => o.reason[1] = "Failed to load template: "
            /\ \A other \in MethodNames \ {p.method} : o.reason[1] # Prefix(other)]_vars

\* redo was rejected by the error reply 'timeout'
RedoRejected ==
  /\ last.op = "message" /\ last.handled
  /\ Has(last.payload.data, "error")
  /\ Len(promises) = 2
  /\ promises[2].method = "redo"
  /\ MethodPromise(promises[2]).reason = <<"Failed to redo: ", "timeout">>

\* C18 as stated: after a setMode(m) call has been answered successfully,
\* mode equals m.
ModeFollowsSetMode ==
  [][\A i \in ReplyIds :
       (/\ HandledReplyStep(i)
        /\ Has(pendingPromises, i)
        /\ ~ErrorTruthy(last'.payload.data)
        /\ promises[pendingPromises[i]].method = "setMode") =>
         \A k \in DOMAIN outbox : outbox[k]["id"] = i => mode' = outbox[k]["mode"]]_vars

(***************************************************************************)
(* Properties of the tree utilities, stated over the paths of a tree: the  *)
(* path of a node is the list of the positions that lead to it.            *)
(***************************************************************************)
RECURSIVE PathsOf(_)
PathsOf(node) ==
  {<<>>} \cup
  (IF Has(node, "elements")
     THEN UNION {{<<i>> \o path : path \in PathsOf(node["elements"][i])} :
                 i \in DOMAIN node["elements"]}
     ELSE {})

RECURSIVE NodeAt(_, _)
NodeAt(node, path) ==
  IF path = <<>> THEN node ELSE NodeAt(node["elements"][Head(path)], Tail(path))

\* depth-first pre-order: a node before the nodes nested in it, and the
\* nodes nested in an element before the later siblings of that element
Before(p, q) ==
  /\ p # q
  /\ \/ /\ Len(p) < Len(q)
        /\ \A j \in 1..Len(p) : p[j] = q[j]
     \/ \E i \in 1..Len(p) :
          /\ i <= Len(q)
          /\ \A j \in 1..(i - 1) : p[j] = q[j]
          /\ p[i] < q[i]

\* C15: findElement returns the first element in depth-first pre-order among
\* the elements nested in the state for which the predicate is true, the
\* root never being one of them, and nothing when there is none or the state
\* is absent.
FindsFirstInPreOrder ==
  last.op = "findElement" =>
    LET s == StateOr(last.argument)
        hits == IF IsObject(s)
                  THEN {p \in PathsOf(s.data) \ {<<>>} :
                          Test(last.predicate, NodeAt(s.data, p))}
                  ELSE {}
    IN IF hits = {}
         THEN last.result = Absent
         ELSE \E p \in hits :
                /\ \A q \in hits \ {p} : Before(p, q)
                /\ last.result = Object(NodeAt(s.data, p))

\* in root -> [A -> [B], C] with B and C childless, the childless element
\* found is B
FoundNestedBeforeSibling ==
  /\ last.op = "findElement"
  /\ last.predicate = "childless"
  /\ last.argument = Absent
  /\ IsObject(state)
  /\ PathsOf(state.data) = {<<>>, <<1>>, <<1, 1>>, <<2>>}
  /\ ~Has(NodeAt(state.data, <<1, 1>>), "elements")
  /\ ~Has(NodeAt(state.data, <<2>>), "elements")
  /\ last.result = Object(NodeAt(state.data, <<1, 1>>))

\* C16: getElements returns the nodes of the tree rooted at the state whose
\* source has a type, the root included, each once and in depth-first
\* pre-order, the nodes nested in a node without a type included; an absent
\* state gives the empty list.
FlattensTypedInPreOrder ==
  last.op = "getElements" =>
    LET s == StateOr(last.argument)
        typed == IF IsObject(s)
                   THEN {p \in PathsOf(s.data) : Has(NodeAt(s.data, p)["source"], "type")}
                   ELSE {}
    IN /\ Len(last.result) = Cardinality(typed)
       /\ \A p \in typed :
            last.result[1 + Cardinality({q \in typed : Before(q, p)})] = NodeAt(s.data, p)

\* a typed root, an untyped element with a typed element nested in it, and
\* a typed later sibling are flattened to root, nested element, sibling
FlattenedThroughUntyped ==
  /\ last.op = "getElements"
  /\ last.argument = Absent
  /\ IsObject(state)
  /\ PathsOf(state.data) = {<<>>, <<1>>, <<1, 1>>, <<2>>}
  /\ ~Has(NodeAt(state.data, <<1>>)["source"], "type")
  /\ last.result = <<state.data, NodeAt(state.data, <<1, 1>>), NodeAt(state.data, <<2>>)>>

RECURSIVE SourceAt(_, _)
\* the source at a path of a source tree, when it has one
SourceAt(source, path) ==
  IF path = <<>>
    THEN source
    ELSE IF Has(source, "elements") /\ Head(path) \in DOMAIN source["elements"]
      THEN SourceAt(source["elements"][Head(path)], Tail(path))
      ELSE [missing |-> path]

\* C17: getSource gives, at the place of every node with an elements list,
\* the fields of the node's source plus an elements list of the length of
\* the node's, whose entries are what it gives for the children in their
\* order; at the place of a node without one, the node's source; and the
\* empty object for an absent state.
ReconstitutesSourceTree ==
  last.op = "getSource" =>
    LET s == StateOr(last.argument) IN
    IF ~IsObject(s)
      THEN last.result = EmptyObject
      ELSE \A p \in PathsOf(s.data) :
             LET node == NodeAt(s.data, p)
                 r == SourceAt(last.result, p)
             IN IF Has(node, "elements")
                  THEN /\ DOMAIN r = DOMAIN node["source"] \cup {"elements"}
                       /\ \A k \in DOMAIN node["source"] : r[k] = node["source"][k]
                       /\ Len(r["elements"]) = Len(node["elements"])
                  ELSE r = node["source"]

\* the source of root -> [A -> [B]] with an empty elements list in B and
\* none in the sibling C of A
ReconstitutedNestedSource ==
  /\ last.op = "getSource"
  /\ last.argument = Absent
  /\ IsObject(state)
  /\ PathsOf(state.data) = {<<>>, <<1>>, <<1, 1>>, <<2>>}
  /\ last.result["elements"][1]["elements"][1] =
       Merge(NodeAt(state.data, <<1, 1>>)["source"], [elements |-> <<>>])
  /\ last.result["elements"][2] = NodeAt(state.data, <<2>>)["source"]

(***************************************************************************)
(* Properties of the application's renderer.                               *)
(***************************************************************************)
\* C20: on every onReady event the handler sets ready, then posts a setMode
\* command with the instance's mode, and only then calls the onReady
\* callback: the callback finds ready set and setMode posted, and the
\* setTemplate command it sends comes right after setMode.
SetModePrecedesReadyCallback ==
  [][(HandledEventStep /\ MessageOf(last'.payload.data) = "onReady") =>
       /\ ready'
       /\ Len(outbox') = Len(outbox) + 2
       /\ outbox'[Len(outbox) + 1] =
            [id |-> issued + 1, message |-> "setMode", mode |-> mode]
       /\ outbox'[Len(outbox) + 2] =
            [id |-> issued + 2, message |-> "setTemplate", templateId |-> TEMPLATE_ID]
       /\ Len(last'.callbacks) = 1
       /\ last'.callbacks[1].name = "onReady"
       /\ last'.callbacks[1].seen.ready
       /\ last'.callbacks[1].seen.posted = Len(outbox) + 1]_vars

\* a second ready event arrived: the embed got setMode, setTemplate, setMode,
\* setTemplate
ReadyTwice ==
  /\ last.op = "message" /\ last.handled
  /\ last.payload = Object([message |-> "onReady"])
  /\ Len(outbox) = 4
  /\ outbox[3]["message"] = "setMode"
  /\ outbox[4]["message"] = "setTemplate"

(***************************************************************************)
(* Properties of the life of an instance.                                  *)
(***************************************************************************)
\* C21: ready is false after construction, becomes true only in a step in
\* which the handler takes the event branch for onReady, which always sets
\* it, and once true it stays true in every step, dispose included.
ReadyOnlyByReadyEvent ==
  /\ ~ready
  /\ [][/\ ready => ready'
        /\ (~ready /\ ready') =>
             (HandledEventStep /\ MessageOf(last'.payload.data) = "onReady")
        /\ (HandledEventStep /\ MessageOf(last'.payload.data) = "onReady") => ready']_vars

\* a ready instance was disposed and is still ready
DisposedWhileReady ==
  /\ last.op = "dispose"
  /\ ready
  /\ ~listening
  /\ issued = 2

\* C22: a command called after dispose on an instance that is ready is not
\* refused: it gets a fresh identifier and a pending entry; and after
\* dispose no step settles or otherwise changes a promise, whatever message
\* arrives.
CommandAfterDisposeNeverSettled ==
  [][~listening =>
       /\ \A n \in DOMAIN promises : promises'[n] = promises[n]
       /\ (last'.op = "call" /\ ready) =>
            /\ last'.outcome = "sent"
            /\ issued' = issued + 1
            /\ ~Has(pendingPromises, issued')
            /\ Has(pendingPromises', issued')
            /\ promises'[pendingPromises'[issued']].id = issued'
            /\ promises'[pendingPromises'[issued']].status = "pending"]_vars

\* the reply to a command called after dispose arrived and left it pending
RepliedToCommandAfterDispose ==
  /\ ~listening
  /\ last.op = "message"
  /\ last.payload = Object(Merge("id" :> 2, [value |-> 42]))
  /\ DOMAIN pendingPromises = {2}
  /\ promises[2].status = "pending"

\* C23: after dispose a message of any kind is not handled: ready, the
\* state mirror, the pending table, the promises and the messages posted
\* are as before and no callback runs.
NothingHandledAfterDispose ==
  [][(last'.op = "message" /\ ~listening) =>
       /\ UNCHANGED <<ready, state, pendingPromises, promises, issued, outbox>>
       /\ ~last'.handled
       /\ last'.callbacks = <<>>]_vars

\* a snapshot arrived after dispose, with a command pending, and was not mirrored
StateChangeAfterDispose ==
  /\ ~listening
  /\ last.op = "message"
  /\ last.payload = Object([message |-> "onStateChange", state |-> "S1"])
  /\ state = Undefined
  /\ ready
  /\ "onStateChange" \in handlers
  /\ pendingPromises # EmptyObject

\* the identifiers of the commands the step posted to the embed
PostedInStep == {outbox'[k]["id"] : k \in (Len(outbox) + 1)..Len(outbox')}

\* the identifier of the reply the step handled, if it handled one
RepliedInStep == {i \in ReplyIds \cup {-1} : HandledReplyStep(i)}

\* C24 as stated, step by step: the pending table is empty after
\* construction and after dispose, and every other step adds to its keys
\* the identifiers of the commands it transmitted and removes the identifier
\* of the reply it handled, and nothing else.
PendingKeysAreUnansweredTransmitted ==
  /\ DOMAIN pendingPromises = {}
  /\ [][DOMAIN pendingPromises' =
          IF last'.op = "dispose"
            THEN {}
            ELSE (DOMAIN pendingPromises \cup PostedInStep) \ RepliedInStep]_vars

\* C25: the iframe is hidden after construction, and its display changes
\* only in a step that handles a reply without an error to a pending
\* loadTemplate or setSource command, which makes it visible; every such
\* reply does; an error reply, a reply to another command, a call, a
\* dispose and a message after dispose leave it as it is.
IframeShownOnlyByLoadSuccess ==
  /\ display = "none"
  /\ [][LET loaded ==
              \E i \in ReplyIds :
                /\ HandledReplyStep(i)
                /\ Has(pendingPromises, i)
                /\ ~ErrorTruthy(last'.payload.data)
                /\ promises[pendingPromises[i]].method \in {"loadTemplate", "setSource"}
        IN /\ display' # display => loaded
           /\ loaded => display' = ""]_vars

\* setSource succeeded and the iframe is visible
ShownAfterSetSource ==
  /\ display = ""
  /\ last.op = "message" /\ last.handled
  /\ Len(promises) = 2
  /\ promises[1].status = "rejected"
  /\ promises[2].method = "setSource"
  /\ promises[2].status = "resolved"

\* C26: a reply to a pending command whose error field is the empty string
\* resolves the promise and does not reject it, and the value it resolves to
\* has neither the identifier nor the error field.
FalsyErrorResolves ==
  [][\A i \in ReplyIds :
       (/\ HandledReplyStep(i)
        /\ Has(pendingPromises, i)
        /\ Has(last'.payload.data, "error")
        /\ last'.payload.data["error"] = "") =>
         LET p == promises'[pendingPromises[i]]
         IN /\ p.status = "resolved"
            /\ p.resolves = 1
            /\ p.rejects = 0
            /\ ~Has(p.value, "id")
            /\ ~Has(p.value, "error")
            /\ ~Has(pendingPromises', i)]_vars

\* the reply { id: 2, error: '', value: 42 } resolved the second command
ResolvedByEmptyError ==
  /\ last.op = "message" /\ last.handled
  /\ last.payload = Object(Merge("id" :> 2, [error |-> "", value |-> 42]))
  /\ Len(promises) = 2
  /\ promises[2].status = "resolved"
  /\ promises[2].value = [value |-> 42]

\* every element nested in the state has a type
AllNestedTyped(s) ==
  IsObject(s) =>
    \A p \in PathsOf(s.data) \ {<<>>} : Has(NodeAt(s.data, p)["source"], "type")

\* the list without the state itself, which is its first entry when it is in it
NestedOnly(list, s) ==
  IF list # <<>> /\ IsObject(s) /\ list[1] = s.data THEN Tail(list) ELSE list

\* C27: when every element nested in the state is typed, findElement gives
\* the first entry of getElements, the state itself left out, for which the
\* predicate is true, and nothing exactly when there is no such entry.
FindAgreesWithFlattening ==
  (last.op = "findElement" /\ AllNestedTyped(StateOr(last.argument))) =>
    LET s == StateOr(last.argument)
        nested == NestedOnly(getElements(s), s)
        hits == {k \in DOMAIN nested : Test(last.predicate, nested[k])}
    IN IF hits = {}
         THEN last.result = Absent
         ELSE \E k \in hits :
                /\ \A h \in hits : k <= h
                /\ last.result = Object(nested[k])

\* in a typed tree root -> [A -> [B], C] the childless element found is B,
\* the third entry of the flattening
FoundSecondOfFlattening ==
  /\ last.op = "findElement"
  /\ last.predicate = "childless"
  /\ last.argument = Absent
  /\ IsObject(state)
  /\ PathsOf(state.data) = {<<>>, <<1>>, <<1, 1>>, <<2>>}
  /\ \A p \in PathsOf(state.data) : Has(NodeAt(state.data, p)["source"], "type")
  /\ ~Has(NodeAt(state.data, <<2>>), "elements")
  /\ last.result = Object(getElements(state)[3])
  /\ Len(getElements(state)) = 4

(***************************************************************************)
(* Properties of the application's set-up.                                 *)
(***************************************************************************)
\* C28: of the instances setUpRenderer has constructed at most one has its
\* listener registered, the one rendererRef refers to: the others were
\* disposed; and a message of the window is handled by at most one instance.
OneListeningRenderer ==
  /\ \A i \in DOMAIN renderers : renderers[i].listening => i = rendererRef
  /\ Cardinality({i \in DOMAIN renderers : renderers[i].listening}) <= 1
  /\ last.op = "windowMessage" => Cardinality(last.handledBy) <= 1

\* the first instance was ready and loading when the second replaced it, and
\* the next ready event was handled by the second only
ReplacedRendererSilent ==
  /\ Len(renderers) = 2
  /\ renderers[1].context.ready
  /\ ~renderers[1].listening
  /\ Len(renderers[1].context.outbox) = 2
  /\ last.op = "windowMessage"
  /\ last.payload = Object([message |-> "onReady"])
  /\ last.handledBy = {2}
  /\ renderers[2].context.ready

(***************************************************************************)
(* Properties of the settings panel.                                       *)
(***************************************************************************)
\* the text has no character besides white space
Blank(value) == \A i \in DOMAIN value : value[i] = " "

\* C29: setPropertyValue(selector, value) stores the value under the selector
\* in the shared map when the value is not blank and removes the selector
\* when it is empty or white space only, leaves every other key as it is,
\* and then posts one setModifications command with the whole map.
PropertyValueStoredAndSent ==
  [][last'.op = "setPropertyValue" =>
       LET selector == last'.selector
           value == last'.value
       IN /\ IF Blank(value)
               THEN ~Has(modificationsRef', selector)
               ELSE /\ Has(modificationsRef', selector)
                    /\ modificationsRef'[selector] = value
          /\ DOMAIN modificationsRef' \ {selector} = DOMAIN modificationsRef \ {selector}
          /\ \A k \in DOMAIN modificationsRef \ {selector} :
               modificationsRef'[k] = modificationsRef[k]
          /\ Len(outbox') = Len(outbox) + 1
          /\ outbox'[Len(outbox')] =
               [id |-> issued + 1, message |-> "setModifications",
                modifications |-> modificationsRef']]_vars

\* Title was set, Tagline was set, and a white space value then removed
\* Title: the command carried the map with Tagline alone
BlankValueRemovedSelector ==
  /\ last.op = "setPropertyValue"
  /\ last.selector = "Title"
  /\ last.value = <<" ">>
  /\ Len(outbox) = 5
  /\ outbox[4]["message"] = "setModifications"
  /\ DOMAIN outbox[4]["modifications"] = {"Title", "Tagline"}
  /\ DOMAIN modificationsRef = {"Tagline"}
  /\ outbox[5]["modifications"] = modificationsRef

(***************************************************************************)
(* Properties of the slides.                                               *)
(***************************************************************************)
RECURSIVE NamesOf(_)
\* the names of the elements of a source, the nested ones included
NamesOf(source) ==
  IF ~Has(source, "elements")
    THEN {}
    ELSE UNION {(IF Has(source["elements"][i], "name")
                   THEN {source["elements"][i]["name"]} ELSE {})
                \cup NamesOf(source["elements"][i]) : i \in DOMAIN source["elements"]}

\* C30 as stated: the name addSlide gives the slide it inserts is the name of
\* no element of the source it got, whether that source is a template's or
\* the result of an earlier addSlide.
NewSlideNameIsFresh ==
  [][(last'.op = "addSlide" /\ last'.outcome = "sent") =>
       last'.slideName \notin NamesOf(last'.source)]_vars

====
